---- MODULE Spec2Model ----
(***************************************************************************)
(* Credential vault of jwang47/chat (frontend/src-tauri/src/credentials.rs)*)
(* CredentialStore maps provider identifiers onto entries of the platform  *)
(* secret store (keyring-rs).  Every handler is one action; the platform   *)
(* store is the state, and the outcome of each platform call (success or a *)
(* platform failure) is an input of the action.                            *)
(***************************************************************************)
EXTENDS Integers, Sequences, FiniteSets, TLC

(***************************************************************************)
(* Bounds of the model.                                                    *)
(***************************************************************************)
\* Number of distinct secret values the callers pass to set.
MaxValues == 2
\* Number of store writes of other callers while one get_all is running.
MaxInterference == 2

(***************************************************************************)
(* Rust values: Option, Result, unit, bool, ApiKeys, CredentialError.      *)
(***************************************************************************)
None == [some |-> FALSE]
Some(v) == [some |-> TRUE, val |-> v]
Ok(v) == [ok |-> TRUE, val |-> v]
Err(e) == [ok |-> FALSE, err |-> e]
Unit == [unit |-> TRUE]
Bool(b) == [bool |-> b]
Keyring(e) == [kind |-> "Keyring", cause |-> e]
InvalidProvider(msg) == [kind |-> "InvalidProvider", cause |-> msg]
ApiKeys(o, g) == [openrouter |-> o, gemini |-> g]

(***************************************************************************)
(* Inputs.                                                                 *)
(***************************************************************************)
service_name == "com.chat.app"
Providers == {"", "openrouter", "gemini", "test-provider"}
KnownProviders == {"openrouter", "gemini"}
SecretPool == <<"sk-abc123", "gm-xyz789", "sk-abc123gm-xyz789", "k">>
Values == {SecretPool[i] : i \in 1..MaxValues}
\* keyring::Error variants other than NoEntry that a platform call can
\* return; "ok" is a call that the platform serves.
Failures == {"NoStorageAccess", "PlatformFailure"}
Outcomes == {"ok"} \cup Failures
\* the outcomes of the first n platform calls of one handler invocation
Oracles(n) == [1..n -> Outcomes]
AllOk == [i \in 1..4 |-> "ok"]

\* format!("{}-api-key", provider)
Username(provider) == provider \o "-api-key"
EntryOf(provider) == <<service_name, Username(provider)>>
Entries == {EntryOf(p) : p \in Providers \ {""}}

VARIABLES
    store,     \* platform secret store: entry -> Option<String>
    written,   \* history: per provider, the value of the most recent
               \* successful set not followed by a successful remove
    last,      \* the last handler invocation: inputs, result, platform calls
    caller,    \* one caller's invocation in progress, one store access per step
    peer,      \* a second caller's invocation in progress
    passed,    \* history: per provider, the values passed to some set
    snaps      \* history: the known providers' entries at each instant of a
               \* running get_all

vars == <<store, written, last, caller, peer, passed, snaps>>
cvars == <<caller, peer, passed, snaps>>

\* no invocation in progress
Idle ==
    [cmd |-> "idle", provider |-> "", value |-> "", pc |-> "idle", acc |-> None,
     ret |-> Unit, trace |-> <<>>, at |-> "", seen |-> None, out |-> <<>>]

(***************************************************************************)
(* Platform secret store (keyring::Entry).  A context threads the store,   *)
(* the outcomes still to be drawn and the log of the calls issued.         *)
(***************************************************************************)
Ctx(s, oracle) == [store |-> s, oracle |-> oracle, calls |-> <<>>]

Issue(ctx, fn, entry) ==
    [ctx EXCEPT !.oracle = Tail(@),
                !.calls = Append(@, [fn |-> fn, entry |-> entry,
                                     outcome |-> Head(ctx.oracle)])]

EntryNew(ctx, service, user) ==
    LET o == Head(ctx.oracle)
        c == Issue(ctx, "Entry::new", <<service, user>>)
    IN  [ctx |-> c, ret |-> IF o = "ok" THEN Ok(<<service, user>>) ELSE Err(o)]

EntryGetPassword(ctx, entry) ==
    LET o == Head(ctx.oracle)
        c == Issue(ctx, "get_password", entry)
    IN  [ctx |-> c,
         ret |-> IF o # "ok" THEN Err(o)
                 ELSE IF ctx.store[entry].some THEN Ok(ctx.store[entry].val)
                 ELSE Err("NoEntry")]

EntrySetPassword(ctx, entry, value) ==
    LET o == Head(ctx.oracle)
        c == Issue(ctx, "set_password", entry)
    IN  IF o # "ok" THEN [ctx |-> c, ret |-> Err(o)]
        ELSE [ctx |-> [c EXCEPT !.store[entry] = Some(value)], ret |-> Ok(Unit)]

EntryDeleteCredential(ctx, entry) ==
    LET o == Head(ctx.oracle)
        c == Issue(ctx, "delete_credential", entry)
    IN  IF o # "ok" THEN [ctx |-> c, ret |-> Err(o)]
        ELSE IF ~ctx.store[entry].some THEN [ctx |-> c, ret |-> Err("NoEntry")]
        ELSE [ctx |-> [c EXCEPT !.store[entry] = None], ret |-> Ok(Unit)]

(***************************************************************************)
(* CredentialStore.                                                        *)
(***************************************************************************)
\* variant: the entry is created before the provider name is validated
get_entry_unvalidated(ctx, provider) ==
    LET e == EntryNew(ctx, service_name, Username(provider))
    IN  IF provider = ""
        THEN [ctx |-> e.ctx, ret |-> Err(InvalidProvider("Provider name cannot be empty"))]
        ELSE IF e.ret.ok THEN e
        ELSE [ctx |-> e.ctx, ret |-> Err(Keyring(e.ret.err))]

get_entry(ctx, provider) ==
    IF provider = ""
    THEN [ctx |-> ctx, ret |-> Err(InvalidProvider("Provider name cannot be empty"))]
    ELSE LET e == EntryNew(ctx, service_name, Username(provider))
         IN  IF e.ret.ok THEN e
             ELSE [ctx |-> e.ctx, ret |-> Err(Keyring(e.ret.err))]

\* variant: KeyringError::NoEntry is not folded into None
get_credential_noentry_err(ctx, provider) ==
    LET e == get_entry(ctx, provider)
    IN  IF ~e.ret.ok THEN e
        ELSE LET g == EntryGetPassword(e.ctx, e.ret.val)
             IN  IF g.ret.ok THEN [ctx |-> g.ctx, ret |-> Ok(Some(g.ret.val))]
                 ELSE [ctx |-> g.ctx, ret |-> Err(Keyring(g.ret.err))]

get_credential(ctx, provider) ==
    LET e == get_entry(ctx, provider)
    IN  IF ~e.ret.ok THEN e
        ELSE LET g == EntryGetPassword(e.ctx, e.ret.val)
             IN  IF g.ret.ok THEN [ctx |-> g.ctx, ret |-> Ok(Some(g.ret.val))]
                 ELSE IF g.ret.err = "NoEntry" THEN [ctx |-> g.ctx, ret |-> Ok(None)]
                 ELSE [ctx |-> g.ctx, ret |-> Err(Keyring(g.ret.err))]

\* variant: an existing entry is kept instead of overwritten
set_credential_create_only(ctx, provider, value) ==
    LET e == get_entry(ctx, provider)
    IN  IF ~e.ret.ok THEN e
        ELSE IF ctx.store[e.ret.val].some THEN [ctx |-> e.ctx, ret |-> Ok(Unit)]
        ELSE LET s == EntrySetPassword(e.ctx, e.ret.val, value)
             IN  IF s.ret.ok
                 THEN LET v == EntryGetPassword(s.ctx, e.ret.val)
                      IN  [ctx |-> v.ctx, ret |-> Ok(Unit)]
                 ELSE [ctx |-> s.ctx, ret |-> Err(Keyring(s.ret.err))]

set_credential(ctx, provider, value) ==
    LET e == get_entry(ctx, provider)
    IN  IF ~e.ret.ok THEN e
        ELSE LET s == EntrySetPassword(e.ctx, e.ret.val, value)
             IN  IF s.ret.ok
                 THEN \* read back as a verification; the outcome is only logged
                      LET v == EntryGetPassword(s.ctx, e.ret.val)
                      IN  [ctx |-> v.ctx, ret |-> Ok(Unit)]
                 ELSE [ctx |-> s.ctx, ret |-> Err(Keyring(s.ret.err))]

\* variant: KeyringError::NoEntry is propagated like any other error
remove_credential_strict(ctx, provider) ==
    LET e == get_entry(ctx, provider)
    IN  IF ~e.ret.ok THEN e
        ELSE LET d == EntryDeleteCredential(e.ctx, e.ret.val)
             IN  IF d.ret.ok THEN [ctx |-> d.ctx, ret |-> Ok(Unit)]
                 ELSE [ctx |-> d.ctx, ret |-> Err(Keyring(d.ret.err))]

remove_credential(ctx, provider) ==
    LET e == get_entry(ctx, provider)
    IN  IF ~e.ret.ok THEN e
        ELSE LET d == EntryDeleteCredential(e.ctx, e.ret.val)
             IN  IF d.ret.ok THEN [ctx |-> d.ctx, ret |-> Ok(Unit)]
                 ELSE IF d.ret.err = "NoEntry" THEN [ctx |-> d.ctx, ret |-> Ok(Unit)]
                 ELSE [ctx |-> d.ctx, ret |-> Err(Keyring(d.ret.err))]

\* variant: a failed lookup of gemini is folded into None
get_all_credentials_partial(ctx) ==
    LET o == get_credential(ctx, "openrouter")
    IN  IF ~o.ret.ok THEN o
        ELSE LET g == get_credential(o.ctx, "gemini")
             IN  IF ~g.ret.ok THEN [ctx |-> g.ctx, ret |-> Ok(ApiKeys(o.ret.val, None))]
                 ELSE [ctx |-> g.ctx, ret |-> Ok(ApiKeys(o.ret.val, g.ret.val))]

\* variant: both fields are read from the openrouter entry
get_all_credentials_same_key(ctx) ==
    LET o == get_credential(ctx, "openrouter")
    IN  IF ~o.ret.ok THEN o
        ELSE LET g == get_credential(o.ctx, "openrouter")
             IN  IF ~g.ret.ok THEN g
                 ELSE [ctx |-> g.ctx, ret |-> Ok(ApiKeys(o.ret.val, g.ret.val))]

get_all_credentials(ctx) ==
    LET o == get_credential(ctx, "openrouter")
    IN  IF ~o.ret.ok THEN o
        ELSE LET g == get_credential(o.ctx, "gemini")
             IN  IF ~g.ret.ok THEN g
                 ELSE [ctx |-> g.ctx, ret |-> Ok(ApiKeys(o.ret.val, g.ret.val))]

\* variant: the first removal's error is propagated with `?`
clear_all_credentials_propagate(ctx) ==
    LET o == remove_credential(ctx, "openrouter")
    IN  IF ~o.ret.ok THEN o
        ELSE LET g == remove_credential(o.ctx, "gemini")
             IN  IF ~g.ret.ok THEN g ELSE [ctx |-> g.ctx, ret |-> Ok(Unit)]

\* variant: only the first known provider is removed
clear_all_credentials_first_only(ctx) ==
    LET o == remove_credential(ctx, "openrouter")
    IN  [ctx |-> o.ctx, ret |-> Ok(Unit)]

clear_all_credentials(ctx) ==
    LET o == remove_credential(ctx, "openrouter")
        g == remove_credential(o.ctx, "gemini")
    IN  [ctx |-> g.ctx, ret |-> Ok(Unit)]

\* variant: a failed lookup is reported as "no credential"
has_credential_swallow(ctx, provider) ==
    LET g == get_credential(ctx, provider)
    IN  IF ~g.ret.ok THEN [ctx |-> g.ctx, ret |-> Ok(Bool(FALSE))]
        ELSE [ctx |-> g.ctx, ret |-> Ok(Bool(g.ret.val.some))]

has_credential(ctx, provider) ==
    LET g == get_credential(ctx, provider)
    IN  IF ~g.ret.ok THEN g
        ELSE [ctx |-> g.ctx, ret |-> Ok(Bool(g.ret.val.some))]

\* variant: `|` instead of `||`, both providers are always queried
has_any_credential_eager(ctx) ==
    LET o == has_credential(ctx, "openrouter")
    IN  IF ~o.ret.ok THEN o
        ELSE LET g == has_credential(o.ctx, "gemini")
             IN  IF ~g.ret.ok THEN g
                 ELSE [ctx |-> g.ctx, ret |-> Ok(Bool(o.ret.val.bool \/ g.ret.val.bool))]

has_any_credential(ctx) ==
    LET o == has_credential(ctx, "openrouter")
    IN  IF ~o.ret.ok THEN o
        ELSE IF o.ret.val.bool THEN [ctx |-> o.ctx, ret |-> Ok(Bool(TRUE))]
        ELSE LET g == has_credential(o.ctx, "gemini")
             IN  IF ~g.ret.ok THEN g
                 ELSE [ctx |-> g.ctx, ret |-> Ok(Bool(g.ret.val.bool))]

(***************************************************************************)
(* History of successful writes, as the caller of the vault sees them.     *)
(***************************************************************************)
\* the result remove_credential(provider) has inside clear_all_credentials
ClearAllRemoval(ctx, provider) ==
    IF provider = "openrouter" THEN remove_credential(ctx, "openrouter")
    ELSE remove_credential(remove_credential(ctx, "openrouter").ctx, "gemini")

Record(op, provider, value, pre, r) ==
    [op |-> op, provider |-> provider, value |-> value, pre |-> pre,
     result |-> r.ret, calls |-> r.ctx.calls]

(***************************************************************************)
(* Actions: one per tauri command.                                         *)
(***************************************************************************)
Init ==
    /\ store = [e \in Entries |-> None]
    /\ written = [p \in Providers \ {""} |-> None]
    /\ last = [op |-> "new", provider |-> "", value |-> "", pre |-> store,
               result |-> Ok(Unit), calls |-> <<>>]
    /\ caller = Idle
    /\ peer = Idle
    /\ passed = [p \in Providers \ {""} |-> {}]
    /\ snaps = <<>>

get_api_key ==
    \E provider \in Providers, oracle \in Oracles(2) :
        LET r == get_credential(Ctx(store, oracle), provider)
        IN  /\ store' = r.ctx.store
            /\ written' = written
            /\ last' = Record("get", provider, "", store, r)
            /\ UNCHANGED cvars

set_api_key ==
    \E provider \in Providers, value \in Values, oracle \in Oracles(3) :
        LET r == set_credential(Ctx(store, oracle), provider, value)
        IN  /\ store' = r.ctx.store
            /\ written' = IF r.ret.ok THEN [written EXCEPT ![provider] = Some(value)]
                          ELSE written
            /\ last' = Record("set", provider, value, store, r)
            /\ UNCHANGED cvars

remove_api_key ==
    \E provider \in Providers, oracle \in Oracles(2) :
        LET r == remove_credential(Ctx(store, oracle), provider)
        IN  /\ store' = r.ctx.store
            /\ written' = IF r.ret.ok THEN [written EXCEPT ![provider] = None]
                          ELSE written
            /\ last' = Record("remove", provider, "", store, r)
            /\ UNCHANGED cvars

get_all_api_keys ==
    \E oracle \in Oracles(4) :
        LET r == get_all_credentials(Ctx(store, oracle))
        IN  /\ store' = r.ctx.store
            /\ written' = written
            /\ last' = Record("get_all", "", "", store, r)
            /\ UNCHANGED cvars

clear_all_api_keys ==
    \E oracle \in Oracles(4) :
        LET c == Ctx(store, oracle)
            r == clear_all_credentials(c)
        IN  /\ store' = r.ctx.store
            /\ written' = [p \in Providers \ {""} |->
                             IF p \in KnownProviders
                                /\ ClearAllRemoval(c, p).ret.ok
                             THEN None ELSE written[p]]
            /\ last' = Record("clear_all", "", "", store, r)
            /\ UNCHANGED cvars

has_api_key ==
    \E provider \in Providers, oracle \in Oracles(2) :
        LET r == has_credential(Ctx(store, oracle), provider)
        IN  /\ store' = r.ctx.store
            /\ written' = written
            /\ last' = Record("has", provider, "", store, r)
            /\ UNCHANGED cvars

has_any_api_key ==
    \E oracle \in Oracles(4) :
        LET r == has_any_credential(Ctx(store, oracle))
        IN  /\ store' = r.ctx.store
            /\ written' = written
            /\ last' = Record("has_any", "", "", store, r)
            /\ UNCHANGED cvars

Next ==
    \/ get_api_key
    \/ set_api_key
    \/ remove_api_key
    \/ get_all_api_keys
    \/ clear_all_api_keys
    \/ has_api_key
    \/ has_any_api_key

Spec == Init /\ [][Next]_vars


(***************************************************************************)
(* Reading the log of platform calls of the last invocation.               *)
(***************************************************************************)
CallsOn(calls, provider) == SelectSeq(calls, LAMBDA c : c.entry = EntryOf(provider))
Failed(calls, provider) ==
    \E i \in 1..Len(calls) : calls[i].entry = EntryOf(provider) /\ calls[i].outcome # "ok"
NoFailure(calls) == \A i \in 1..Len(calls) : calls[i].outcome = "ok"
Fns(calls) == [i \in 1..Len(calls) |-> calls[i].fn]
\* the outcomes the last invocation drew, served again to a second invocation
Replay(calls) == [i \in 1..4 |-> IF i <= Len(calls) THEN calls[i].outcome ELSE "ok"]
NamedOps == {"get", "set", "remove", "has"}

(***************************************************************************)
(* C1: round trip and overwrite.  In every state, for every non-empty      *)
(* provider P, get(P) returns Some of the value of the most recent         *)
(* successful set(P, .) not followed by a remove(P) (None if there is      *)
(* none) and has(P) tells whether there is one; right after a successful   *)
(* set(P, V), whatever P held before, get(P) is Some(V) and has(P) is true.*)
(***************************************************************************)
C1_RoundTrip ==
    /\ \A p \in Providers \ {""} :
          /\ get_credential(Ctx(store, AllOk), p).ret = Ok(written[p])
          /\ has_credential(Ctx(store, AllOk), p).ret = Ok(Bool(written[p].some))
    /\ (last.op = "get" /\ last.provider # "" /\ NoFailure(last.calls))
          => last.result = Ok(written[last.provider])
    /\ (last.op = "has" /\ last.provider # "" /\ NoFailure(last.calls))
          => last.result = Ok(Bool(written[last.provider].some))
    /\ (last.op = "set" /\ last.result.ok)
          => /\ get_credential(Ctx(store, AllOk), last.provider).ret = Ok(Some(last.value))
             /\ has_credential(Ctx(store, AllOk), last.provider).ret = Ok(Bool(TRUE))

\* a successful set(P, V2) on a provider that held a different V1
C1_Witness ==
    /\ last.op = "set" /\ last.result.ok /\ last.provider = "openrouter"
    /\ last.pre[EntryOf("openrouter")] = Some("sk-abc123")
    /\ last.value = "gm-xyz789"
    /\ store[EntryOf("openrouter")] = Some("gm-xyz789")

(***************************************************************************)
(* C2: absence is a value.  For a non-empty provider with no stored secret *)
(* (never set, or removed since its last set), get returns Ok(None) and    *)
(* has returns Ok(false) unless a platform call failed; an error of get or *)
(* has always comes from a failed platform call, never from absence.       *)
(***************************************************************************)
C2_AbsentIsNone ==
    (last.op \in {"get", "has"} /\ last.provider # "" /\ ~written[last.provider].some)
        => /\ NoFailure(last.calls)
                => last.result = IF last.op = "get" THEN Ok(None) ELSE Ok(Bool(FALSE))
           /\ ~last.result.ok => ~NoFailure(last.calls)
           /\ store = last.pre

\* get on an absent provider while another provider holds a secret
C2_Witness ==
    /\ last.op = "get" /\ last.provider = "gemini" /\ last.result = Ok(None)
    /\ store[EntryOf("openrouter")].some

(***************************************************************************)
(* C3: remove is idempotent.  remove(P) on a non-empty P returns an error  *)
(* exactly when a platform call failed; when it succeeds P is absent, and  *)
(* when no entry existed it succeeds without changing the store.  A second *)
(* remove(P) right after a successful one succeeds again (platform         *)
(* failures aside) and leaves the store as it was.                         *)
(***************************************************************************)
C3_State ==
    (last.op = "remove" /\ last.provider # "")
        => /\ last.result.ok <=> NoFailure(last.calls)
           /\ last.result.ok => /\ last.result = Ok(Unit)
                                /\ store = [last.pre EXCEPT ![EntryOf(last.provider)] = None]
           /\ ~last.result.ok => /\ last.result.err.kind = "Keyring"
                                 /\ last.result.err.cause \in Failures
                                 /\ store = last.pre

C3_Twice ==
    (/\ last.op = "remove" /\ last.provider # "" /\ last.result.ok
     /\ last'.op = "remove" /\ last'.provider = last.provider
     /\ NoFailure(last'.calls))
        => /\ last'.result = Ok(Unit)
           /\ store' = store
           /\ ~store'[EntryOf(last.provider)].some

C3_RemoveIdempotent == [](C3_State) /\ [][C3_Twice]_vars

\* a successful remove of a provider that had no entry
C3_Witness ==
    /\ last.op = "remove" /\ last.provider = "gemini" /\ last.result = Ok(Unit)
    /\ ~last.pre[EntryOf("gemini")].some
    /\ Len(last.calls) = 2

(***************************************************************************)
(* C4: the empty provider.  get, set, remove and has on "" fail with       *)
(* InvalidProvider, issue no platform call (not even the creation of the   *)
(* entry, for which the storage key is derived) and leave the store as it  *)
(* was.                                                                    *)
(***************************************************************************)
C4_EmptyProvider ==
    (last.op \in NamedOps /\ last.provider = "")
        => /\ ~last.result.ok
           /\ last.result.err.kind = "InvalidProvider"
           /\ last.calls = <<>>
           /\ store = last.pre

\* set("", V) on a store that holds a secret
C4_Witness ==
    /\ last.op = "set" /\ last.provider = "" /\ ~last.result.ok
    /\ store[EntryOf("openrouter")].some

(***************************************************************************)
(* C5: clear_all then has_any.                                             *)
(***************************************************************************)
\* has_any() in the current state, asked of a platform that serves the query
HasAnyNow == has_any_credential(Ctx(store, AllOk)).ret

C6_ClearAllBestEffort ==
    last.op = "clear_all"
        => /\ last.result = Ok(Unit)
           /\ last.calls = CallsOn(last.calls, "openrouter") \o CallsOn(last.calls, "gemini")
           /\ \A p \in KnownProviders :
                 LET cs == CallsOn(last.calls, p)
                 IN  /\ Len(cs) >= 1
                     /\ Fns(cs) = IF cs[1].outcome = "ok"
                                  THEN <<"Entry::new", "delete_credential">>
                                  ELSE <<"Entry::new">>
                     /\ store[EntryOf(p)] = IF Failed(last.calls, p)
                                            THEN last.pre[EntryOf(p)] ELSE None
           /\ store[EntryOf("test-provider")] = last.pre[EntryOf("test-provider")]

\* the removal of openrouter failed and the secret of gemini was removed
C6_Witness ==
    /\ last.op = "clear_all" /\ last.result = Ok(Unit)
    /\ Failed(last.calls, "openrouter")
    /\ last.pre[EntryOf("gemini")].some /\ ~store[EntryOf("gemini")].some

(***************************************************************************)
(* C7: get_all is all or nothing.  If a platform call of a lookup fails,   *)
(* get_all returns that error wrapped as a Keyring error, and the failed   *)
(* call is the last one it issues; otherwise it returns an aggregate with  *)
(* both fields, where a provider without entry has None.  The store is     *)
(* left as it was.                                                         *)
(***************************************************************************)
C7_GetAllAllOrNothing ==
    last.op = "get_all"
        => /\ store = last.pre
           /\ IF NoFailure(last.calls)
              THEN last.result = Ok(ApiKeys(last.pre[EntryOf("openrouter")],
                                            last.pre[EntryOf("gemini")]))
              ELSE /\ last.result = Err(Keyring(last.calls[Len(last.calls)].outcome))
                   /\ \A i \in 1..(Len(last.calls) - 1) : last.calls[i].outcome = "ok"

\* openrouter was read, the lookup of gemini failed: no aggregate
C7_Witness ==
    /\ last.op = "get_all"
    /\ last.pre[EntryOf("openrouter")].some
    /\ ~Failed(last.calls, "openrouter") /\ Failed(last.calls, "gemini")
    /\ last.result = Err(Keyring("NoStorageAccess"))

(***************************************************************************)
(* C8: aggregate and single lookups agree.  Without platform failures,     *)
(* get_all returns for each known provider what get(provider) returns in   *)
(* that state, which is the value of its last successful set not followed  *)
(* by a remove, and has_any is true iff one of them is Some; on a fresh    *)
(* vault the aggregate is {None, None} and has_any is false.               *)
(***************************************************************************)
GetNow(p) == get_credential(Ctx(store, AllOk), p).ret

C8_AggregateAgrees ==
    /\ (last.op = "get_all" /\ NoFailure(last.calls))
          => /\ last.result.ok
             /\ Ok(last.result.val.openrouter) = GetNow("openrouter")
             /\ Ok(last.result.val.gemini) = GetNow("gemini")
             /\ last.result.val = ApiKeys(written["openrouter"], written["gemini"])
    /\ (last.op = "has_any" /\ NoFailure(last.calls))
          => /\ last.result.ok
             /\ last.result.val.bool
                   <=> \E p \in KnownProviders : GetNow(p).val.some
    /\ last.op = "new"
          => /\ get_all_credentials(Ctx(store, AllOk)).ret = Ok(ApiKeys(None, None))
             /\ HasAnyNow = Ok(Bool(FALSE))

\* the scenario of the specification: both providers set, then get_all
C8_Witness ==
    /\ last.op = "get_all"
    /\ last.result = Ok(ApiKeys(Some("sk-abc123"), Some("gm-xyz789")))
    /\ HasAnyNow = Ok(Bool(TRUE))

(***************************************************************************)
(* C9: has_any is a short-circuiting OR over openrouter, then gemini.  It  *)
(* queries openrouter first; if that query fails, has_any returns its      *)
(* error and gemini is not queried; if openrouter holds a secret, has_any  *)
(* returns true and gemini is not queried; otherwise gemini is queried and *)
(* has_any returns its error or whether it holds a secret.                 *)
(***************************************************************************)
C9_HasAnyShortCircuit ==
    last.op = "has_any"
        => LET co == CallsOn(last.calls, "openrouter")
               cg == CallsOn(last.calls, "gemini")
           IN  /\ store = last.pre
               /\ last.calls = co \o cg
               /\ co # <<>>
               /\ IF Failed(last.calls, "openrouter")
                  THEN /\ last.result = Err(Keyring(co[Len(co)].outcome))
                       /\ cg = <<>>
                  ELSE IF last.pre[EntryOf("openrouter")].some
                  THEN /\ last.result = Ok(Bool(TRUE))
                       /\ cg = <<>>
                  ELSE /\ cg # <<>>
                       /\ last.result = IF Failed(last.calls, "gemini")
                                        THEN Err(Keyring(cg[Len(cg)].outcome))
                                        ELSE Ok(Bool(last.pre[EntryOf("gemini")].some))

\* openrouter holds a secret: true, and gemini (which holds one too) is not queried
C9_Witness ==
    /\ last.op = "has_any" /\ last.result = Ok(Bool(TRUE))
    /\ last.pre[EntryOf("gemini")].some
    /\ CallsOn(last.calls, "gemini") = <<>>

(***************************************************************************)
(* C10: has is get(..).is_some().  For every provider (the empty one       *)
(* included) and every store, failing ones included, has returns what get  *)
(* returns in the same store with the same platform outcomes, with         *)
(* Some(_) mapped to true and None to false, and issues the same calls.    *)
(***************************************************************************)
IsSome(r) == IF r.ok THEN Ok(Bool(r.val.some)) ELSE r

C10_HasIsGetIsSome ==
    last.op = "has"
        => LET g == get_credential(Ctx(last.pre, Replay(last.calls)), last.provider)
           IN  /\ last.result = IsSome(g.ret)
               /\ last.calls = g.ctx.calls
               /\ store = g.ctx.store

\* has on a store whose lookup fails
C10_Witness ==
    /\ last.op = "has" /\ last.provider = "openrouter"
    /\ last.pre[EntryOf("openrouter")].some
    /\ last.result = Err(Keyring("PlatformFailure"))

(***************************************************************************)
(* C11: platform failures are surfaced.                                    *)
(***************************************************************************)
\* the first failed platform call of the last invocation (0 if none)
FirstFailure(calls) ==
    IF NoFailure(calls) THEN 0
    ELSE CHOOSE i \in 1..Len(calls) :
            /\ calls[i].outcome # "ok"
            /\ \A j \in 1..(i - 1) : calls[j].outcome = "ok"

\* C11 as stated: for get, set, remove and has on a non-empty provider, a
\* platform failure other than "entry not found" is returned as a Keyring
\* error wrapping its cause and never turned into None, false or success;
\* "entry not found" is never an error.
C11_Original ==
    (last.op \in NamedOps /\ last.provider # "")
        => IF NoFailure(last.calls) THEN last.result.ok
           ELSE last.result = Err(Keyring(last.calls[FirstFailure(last.calls)].outcome))

(***************************************************************************)
(* Log output (println!, eprintln!) that carries data of a secret: each    *)
(* line is a record of the text and of the arguments formatted into it.    *)
(***************************************************************************)
\* s.chars().take(n).collect::<String>()
Take(s, n) == IF Len(s) <= n THEN s ELSE SubSeq(s, 1, n)

\* set_credential, before the write
LogSet(value) ==
    << [line |-> "Setting credential (value length)", len |-> Len(value)],
       [line |-> "First 10 chars of value", text |-> Take(value, 10)] >>

\* set_credential, the read-back after the write; v is what get_password returned
LogVerify(value, v) ==
    IF ~v.ok
    THEN << [line |-> "Credential verification failed - could not retrieve", cause |-> v.err] >>
    ELSE << [line |-> "Verification retrieval successful (length)", len |-> Len(v.val)],
            [line |-> "First 10 chars retrieved", text |-> Take(v.val, 10)] >>
         \o (IF v.val = value
             THEN << [line |-> "Credential verification successful - values match perfectly"] >>
             ELSE << [line |-> "Credential verification failed - value mismatch"],
                     [line |-> "Expected length, got length", len |-> Len(value),
                      got_len |-> Len(v.val)],
                     [line |-> "Expected first 10", text |-> Take(value, 10)],
                     [line |-> "Got first 10", text |-> Take(v.val, 10)] >>)

\* get_credential: the arms of the match on entry.get_password(), reached
\* only when get_entry returned an entry; e is the result of get_entry and
\* r the result of get_credential
LogGet(e, r) ==
    IF ~e.ok THEN <<>>
    ELSE IF ~r.ok THEN << [line |-> "Error retrieving credential", cause |-> r.err] >>
    ELSE IF ~r.val.some THEN << [line |-> "No credential found"] >>
    ELSE << [line |-> "Successfully retrieved credential (length)", len |-> Len(r.val.val)],
            [line |-> "First 10 chars", text |-> Take(r.val.val, 10)] >>

\* what get_credential(provider) prints; has_credential prints the same
get_credential_printed(ctx, provider) ==
    LogGet(get_entry(ctx, provider).ret, get_credential(ctx, provider).ret)

(***************************************************************************)
(* test_keychain_access.                                                   *)
(***************************************************************************)
test_provider == "test-provider"
test_value == "test-value"

\* the direct retrieval from the entry; d is what get_password returned
LogDirect(d) ==
    IF ~d.ok THEN << [line |-> "Direct retrieval failed", cause |-> d.err] >>
    ELSE << [line |-> "Direct retrieval successful: length", len |-> Len(d.val)] >>
         \o (IF d.val = test_value
             THEN << [line |-> "Direct retrieval value matches expected"] >>
             ELSE << [line |-> "Direct retrieval value mismatch: expected, got",
                      expected |-> test_value, got |-> d.val] >>)

\* the arms of the match on get_credential(test_provider)
LogRead(e, r) ==
    LogGet(e, r) \o
    (IF r.ok /\ r.val.some /\ r.val.val = test_value
     THEN << [line |-> "Phase 2 completed: Successfully read back test entry"] >>
     ELSE IF r.ok /\ r.val.some
     THEN << [line |-> "Phase 2 failed: Value mismatch"],
             [line |-> "Expected", text |-> test_value],
             [line |-> "Got", text |-> r.val.val],
             [line |-> "Expected length", len |-> Len(test_value)],
             [line |-> "Got length", len |-> Len(r.val.val)] >>
     ELSE IF r.ok
     THEN << [line |-> "Phase 2 failed: Could not read back test entry"] >>
     ELSE << [line |-> "Phase 2 failed: Error reading test entry", cause |-> r.err] >>)

\* variant: the guard `if value == test_value` is missing
TestVerdict_any_value(r) ==
    IF r.ok /\ r.val.some
    THEN Ok([msg |-> "Keychain access test passed - all phases successful"])
    ELSE IF r.ok
    THEN Err([msg |-> "Could not read back test entry - entry appears to exist but returns None"])
    ELSE Err([msg |-> "Error reading test entry", cause |-> r.err])

\* the String (Ok) or error String (Err) that the command returns
TestVerdict(r) ==
    IF r.ok /\ r.val.some /\ r.val.val = test_value
    THEN Ok([msg |-> "Keychain access test passed - all phases successful"])
    ELSE IF r.ok /\ r.val.some
    THEN Err([msg |-> "Value mismatch: expected (len), got (len)",
              expected |-> test_value, expected_len |-> Len(test_value),
              got |-> r.val.val, got_len |-> Len(r.val.val)])
    ELSE IF r.ok
    THEN Err([msg |-> "Could not read back test entry - entry appears to exist but returns None"])
    ELSE Err([msg |-> "Error reading test entry", cause |-> r.err])

\* variant: a failed set does not end the test
TestAfterSet_continue(r) == "set_verify"

\* the phase after set_credential(test_provider, test_value) returned r
TestAfterSet(r) == IF r.ok THEN "set_verify" ELSE "done"

\* the phase after get_credential(test_provider) returned r
TestAfterRead(r) == IF r.ok /\ ~r.val.some THEN "has" ELSE "cleanup"

\* variant: a failed cleanup fails the test
TestReturn_cleanup(verdict, cleanup) ==
    IF cleanup.ok THEN verdict
    ELSE Err([msg |-> "Cleanup failed", cause |-> cleanup.err])

\* what the command returns after the cleanup returned cleanup
TestReturn(verdict, cleanup) == verdict

(***************************************************************************)
(* Commands run one store access at a time.  A step runs the invocation of *)
(* `caller` up to and including its next access to the platform store.     *)
(***************************************************************************)
Running(c) == c.pc \notin {"idle", "done"}

Moved(c, ctx, fn, seen, out, acc, pc, ret) ==
    [ctx |-> ctx,
     caller |-> [c EXCEPT !.pc = pc, !.at = c.pc, !.seen = seen, !.out = out,
                          !.acc = acc, !.ret = ret,
                          !.trace = Append(@, [fn |-> fn, ok |-> seen.ok])]]

\* variant: the write goes to the entry of openrouter whatever the provider
set_credential_write_fixed_key(ctx, provider, value) ==
    LET e == get_entry(ctx, provider)
    IN  IF ~e.ret.ok THEN e
        ELSE LET s == EntrySetPassword(e.ctx, EntryOf("openrouter"), value)
             IN  IF s.ret.ok THEN [ctx |-> s.ctx, ret |-> Ok(e.ret.val)]
                 ELSE [ctx |-> s.ctx, ret |-> Err(Keyring(s.ret.err))]

\* set_credential up to the write
set_credential_write(ctx, provider, value) ==
    LET e == get_entry(ctx, provider)
    IN  IF ~e.ret.ok THEN e
        ELSE LET s == EntrySetPassword(e.ctx, e.ret.val, value)
             IN  IF s.ret.ok THEN [ctx |-> s.ctx, ret |-> Ok(e.ret.val)]
                 ELSE [ctx |-> s.ctx, ret |-> Err(Keyring(s.ret.err))]

\* set_credential after a successful write: the read-back
set_credential_verify(ctx, entry, value) == EntryGetPassword(ctx, entry)

step_get(c, ctx) ==
    LET r == get_credential(ctx, c.provider)
    IN  Moved(c, r.ctx, "get_credential", r.ret, get_credential_printed(ctx, c.provider),
              c.acc, "done", r.ret)

step_has(c, ctx) ==
    LET r == has_credential(ctx, c.provider)
    IN  Moved(c, r.ctx, "has_credential", r.ret, get_credential_printed(ctx, c.provider),
              c.acc, "done", r.ret)

step_remove(c, ctx) ==
    LET r == remove_credential(ctx, c.provider)
    IN  Moved(c, r.ctx, "remove_credential", r.ret, <<>>, c.acc, "done", r.ret)

\* variant: a read-back that fails or differs fails the set and undoes the write
step_set_strict(c, ctx) ==
    IF c.pc = "write"
    THEN LET r == set_credential_write(ctx, c.provider, c.value)
         IN  IF r.ret.ok
             THEN Moved(c, r.ctx, "set_password", r.ret, LogSet(c.value), r.ret.val,
                        "verify", Unit)
             ELSE Moved(c, r.ctx, "set_password", r.ret, LogSet(c.value), c.acc,
                        "done", r.ret)
    ELSE LET v == set_credential_verify(ctx, c.acc, c.value)
         IN  IF v.ret.ok /\ v.ret.val = c.value
             THEN Moved(c, v.ctx, "verify", v.ret, LogVerify(c.value, v.ret), c.acc,
                        "done", Ok(Unit))
             ELSE Moved(c, [v.ctx EXCEPT !.store[c.acc] = None], "verify", v.ret,
                        LogVerify(c.value, v.ret), c.acc, "done",
                        Err(Keyring("PlatformFailure")))

step_set(c, ctx) ==
    IF c.pc = "write"
    THEN LET r == set_credential_write(ctx, c.provider, c.value)
         IN  IF r.ret.ok
             THEN Moved(c, r.ctx, "set_password", r.ret, LogSet(c.value), r.ret.val,
                        "verify", Unit)
             ELSE Moved(c, r.ctx, "set_password", r.ret, LogSet(c.value), c.acc,
                        "done", r.ret)
    ELSE LET v == set_credential_verify(ctx, c.acc, c.value)
         IN  Moved(c, v.ctx, "verify", v.ret, LogVerify(c.value, v.ret), c.acc,
                   "done", Ok(Unit))

\* variant: the two fields of the aggregate are swapped
step_get_all_swapped(c, ctx) ==
    IF c.pc = "openrouter"
    THEN LET r == get_credential(ctx, "openrouter")
             out == get_credential_printed(ctx, "openrouter")
         IN  IF r.ret.ok
             THEN Moved(c, r.ctx, "get_credential", r.ret, out, r.ret.val,
                        "gemini", Unit)
             ELSE Moved(c, r.ctx, "get_credential", r.ret, out, c.acc,
                        "done", r.ret)
    ELSE LET r == get_credential(ctx, "gemini")
             out == get_credential_printed(ctx, "gemini")
         IN  Moved(c, r.ctx, "get_credential", r.ret, out, c.acc, "done",
                   IF r.ret.ok THEN Ok(ApiKeys(r.ret.val, c.acc)) ELSE r.ret)

step_get_all(c, ctx) ==
    IF c.pc = "openrouter"
    THEN LET r == get_credential(ctx, "openrouter")
             out == get_credential_printed(ctx, "openrouter")
         IN  IF r.ret.ok
             THEN Moved(c, r.ctx, "get_credential", r.ret, out, r.ret.val,
                        "gemini", Unit)
             ELSE Moved(c, r.ctx, "get_credential", r.ret, out, c.acc,
                        "done", r.ret)
    ELSE LET r == get_credential(ctx, "gemini")
             out == get_credential_printed(ctx, "gemini")
         IN  Moved(c, r.ctx, "get_credential", r.ret, out, c.acc, "done",
                   IF r.ret.ok THEN Ok(ApiKeys(c.acc, r.ret.val)) ELSE r.ret)

step_clear_all(c, ctx) ==
    IF c.pc = "openrouter"
    THEN LET r == remove_credential(ctx, "openrouter")
         IN  Moved(c, r.ctx, "remove_credential", r.ret, <<>>, c.acc, "gemini", Unit)
    ELSE LET r == remove_credential(ctx, "gemini")
         IN  Moved(c, r.ctx, "remove_credential", r.ret, <<>>, c.acc, "done", Ok(Unit))

step_has_any(c, ctx) ==
    IF c.pc = "openrouter"
    THEN LET r == has_credential(ctx, "openrouter")
             out == get_credential_printed(ctx, "openrouter")
         IN  IF r.ret.ok /\ ~r.ret.val.bool
             THEN Moved(c, r.ctx, "has_credential", r.ret, out, c.acc, "gemini", Unit)
             ELSE Moved(c, r.ctx, "has_credential", r.ret, out, c.acc, "done", r.ret)
    ELSE LET r == has_credential(ctx, "gemini")
             out == get_credential_printed(ctx, "gemini")
         IN  Moved(c, r.ctx, "has_credential", r.ret, out, c.acc, "done", r.ret)

\* variant: the cleanup creates the entry but does not delete the credential
TestCleanup_skip(ctx) ==
    LET e == get_entry(ctx, test_provider)
    IN  IF ~e.ret.ok THEN e ELSE [ctx |-> e.ctx, ret |-> Ok(Unit)]

\* variant: the cleanup removes the credential of a real provider
TestCleanup_real_provider(ctx) == remove_credential(ctx, "openrouter")

\* the cleanup of the self-test
TestCleanup(ctx) == remove_credential(ctx, test_provider)

test_keychain_access(c, ctx) ==
    CASE c.pc = "set_write" ->
            LET r == set_credential_write(ctx, test_provider, test_value)
                pc == TestAfterSet(r.ret)
            IN  Moved(c, r.ctx, "set_credential", r.ret, LogSet(test_value), c.acc, pc,
                      IF pc # "done" THEN Unit
                      ELSE Err([msg |-> "Keychain access test failed during storage",
                                cause |-> r.ret.err]))
      [] c.pc = "set_verify" ->
            LET v == set_credential_verify(ctx, EntryOf(test_provider), test_value)
            IN  Moved(c, v.ctx, "verify", v.ret, LogVerify(test_value, v.ret), c.acc,
                      "direct", Unit)
      [] c.pc = "direct" ->
            LET e == get_entry(ctx, test_provider)
            IN  IF ~e.ret.ok
                THEN Moved(c, e.ctx, "get_entry", e.ret, <<>>, c.acc, "read", Unit)
                ELSE LET d == EntryGetPassword(e.ctx, e.ret.val)
                     IN  Moved(c, d.ctx, "get_entry", d.ret, LogDirect(d.ret), c.acc,
                               "read", Unit)
      [] c.pc = "read" ->
            LET r == get_credential(ctx, test_provider)
            IN  Moved(c, r.ctx, "get_credential", r.ret,
                      LogRead(get_entry(ctx, test_provider).ret, r.ret), r.ret,
                      TestAfterRead(r.ret), Unit)
      [] c.pc = "has" ->
            LET r == has_credential(ctx, test_provider)
            IN  Moved(c, r.ctx, "has_credential", r.ret,
                      get_credential_printed(ctx, test_provider), c.acc, "cleanup", Unit)
      [] c.pc = "cleanup" ->
            LET r == TestCleanup(ctx)
            IN  Moved(c, r.ctx, "remove_credential", r.ret, <<>>, c.acc, "done",
                      TestReturn(TestVerdict(c.acc), r.ret))

Advance(c, ctx) ==
    CASE c.cmd = "get" -> step_get(c, ctx)
      [] c.cmd = "has" -> step_has(c, ctx)
      [] c.cmd = "remove" -> step_remove(c, ctx)
      [] c.cmd = "set" -> step_set(c, ctx)
      [] c.cmd = "get_all" -> step_get_all(c, ctx)
      [] c.cmd = "clear_all" -> step_clear_all(c, ctx)
      [] c.cmd = "has_any" -> step_has_any(c, ctx)
      [] c.cmd = "test" -> test_keychain_access(c, ctx)

\* the credential commands that run() registers in generate_handler!;
\* test_keychain_access is a #[command] function but is not in that list
Commands == {"get", "set", "remove", "has", "get_all", "clear_all", "has_any"}
FirstPc(cmd) ==
    CASE cmd = "set" -> "write"
      [] cmd \in {"get_all", "clear_all", "has_any"} -> "openrouter"
      [] cmd = "test" -> "set_write"
      [] OTHER -> "call"
Invoke(cmd, provider, value) ==
    [Idle EXCEPT !.cmd = cmd, !.provider = provider, !.value = value, !.pc = FirstPc(cmd)]

\* the caller invokes a registered command
invoke ==
    /\ ~Running(caller)
    /\ \E cmd \in Commands :
          \E provider \in (IF cmd \in NamedOps THEN Providers ELSE {""}),
             value \in (IF cmd = "set" THEN Values ELSE {""}) :
                caller' = Invoke(cmd, provider, value)
    /\ UNCHANGED <<store, written, last, peer, passed, snaps>>

\* the invocation performs its next store access
step ==
    /\ Running(caller)
    /\ \E oracle \in Oracles(2) :
          LET r == Advance(caller, Ctx(store, oracle))
          IN  /\ store' = r.ctx.store
              /\ caller' = r.caller
    /\ UNCHANGED <<written, last, peer, passed, snaps>>

\* the store access of a set_credential of another caller
other_set ==
    /\ \E provider \in Providers \ {""}, value \in Values :
          store' = set_credential(Ctx(store, AllOk), provider, value).ctx.store
    /\ UNCHANGED <<written, last, peer, caller, passed, snaps>>

\* the store access of a remove_credential of another caller
other_remove ==
    /\ \E provider \in Providers \ {""} :
          store' = remove_credential(Ctx(store, AllOk), provider).ctx.store
    /\ UNCHANGED <<written, last, peer, caller, passed, snaps>>

\* the application: the registered commands
NextC == invoke \/ step \/ other_set \/ other_remove

SpecC == Init /\ [][NextC]_vars

\* test_keychain_access is called directly on the managed store: the
\* application does not register it, so no frontend invocation reaches it
invoke_test ==
    /\ ~Running(caller)
    /\ caller' = Invoke("test", "", "")
    /\ UNCHANGED <<store, written, last, peer, passed, snaps>>

\* the functions of credentials.rs: the registered commands and the
\* self-test called directly
NextS == invoke \/ invoke_test \/ step \/ other_set \/ other_remove

SpecS == Init /\ [][NextS]_vars

(***************************************************************************)
(* Reading the invocation in progress.                                     *)
(***************************************************************************)
Testing == caller.cmd = "test"
TestDone == Testing /\ caller.pc = "done"
\* set_credential(test_provider, test_value) of the self-test returned Ok
TestSetOk == Testing /\ caller.trace # <<>> /\ caller.trace[1].ok
Count(trace, fn) == Cardinality({i \in 1..Len(trace) : trace[i].fn = fn})
TestEntry == EntryOf(test_provider)

(***************************************************************************)
(* C12: a failed set ends the self-test.  If set_credential of the test    *)
(* credential fails, the command has returned the storage failure with the *)
(* cause of that failure and has issued nothing else: no read-back and no  *)
(* remove of the test credential.                                          *)
(***************************************************************************)
C12_SetFailureEndsTest ==
    (Testing /\ caller.trace # <<>> /\ ~caller.trace[1].ok)
        => /\ caller.pc = "done"
           /\ caller.trace = << [fn |-> "set_credential", ok |-> FALSE] >>
           /\ caller.ret = Err([msg |-> "Keychain access test failed during storage",
                                cause |-> caller.seen.err])
           /\ caller.seen.err.kind = "Keyring"

\* the write of the test credential was refused by the platform
C12_Witness ==
    /\ TestDone /\ Len(caller.trace) = 1 /\ ~caller.trace[1].ok
    /\ caller.ret.err.cause = Keyring("PlatformFailure")
    /\ ~store[TestEntry].some

(***************************************************************************)
(* C13: the cleanup always runs.  Once set_credential of the test          *)
(* credential succeeded, the command returns only after exactly one        *)
(* remove_credential, which is its last call and follows the one           *)
(* get_credential of the read-back, whatever the read-back returned; no    *)
(* remove is issued before the read-back; and what the command returns is  *)
(* determined by the read-back alone, whether the cleanup succeeded or not.*)
(***************************************************************************)
C13_CleanupAlwaysRuns ==
    TestSetOk
        => /\ caller.pc = "done"
              => LET n == Len(caller.trace)
                 IN  /\ caller.trace[n].fn = "remove_credential"
                     /\ Count(caller.trace, "remove_credential") = 1
                     /\ Count(caller.trace, "get_credential") = 1
                     /\ \E i \in 1..(n - 1) : caller.trace[i].fn = "get_credential"
                     /\ caller.ret = TestVerdict(caller.acc)
           /\ caller.pc # "done"
              => /\ Count(caller.trace, "remove_credential") = 0
                 /\ caller.ret = Unit
           /\ caller.pc = "cleanup" => Count(caller.trace, "get_credential") = 1

\* the test passed although its cleanup failed
C13_Witness ==
    /\ TestDone /\ TestSetOk
    /\ ~caller.trace[Len(caller.trace)].ok
    /\ caller.ret.ok
    /\ store[TestEntry].some

(***************************************************************************)
(* C14: the verdicts.  The command returns Ok (pass) iff set_credential    *)
(* succeeded and the read-back returned exactly the test value; a          *)
(* read-back of another value returns the mismatch error with both values  *)
(* and lengths, an absent value returns the could-not-read-back error, and *)
(* the two differ from each other and from pass.                           *)
(***************************************************************************)
C14_Verdicts ==
    TestDone
        => /\ caller.ret.ok <=> (TestSetOk /\ caller.acc = Ok(Some(test_value)))
           /\ caller.ret.ok
                 => caller.ret.val.msg = "Keychain access test passed - all phases successful"
           /\ (TestSetOk /\ caller.acc.ok /\ caller.acc.val.some
                         /\ caller.acc.val.val # test_value)
                 => caller.ret = Err([msg |-> "Value mismatch: expected (len), got (len)",
                                      expected |-> test_value, expected_len |-> 10,
                                      got |-> caller.acc.val.val,
                                      got_len |-> Len(caller.acc.val.val)])
           /\ (TestSetOk /\ caller.acc = Ok(None))
                 => caller.ret = Err([msg |-> "Could not read back test entry - entry appears to exist but returns None"])

\* another caller's value was read back: mismatch
C14_Witness ==
    /\ TestDone /\ ~caller.ret.ok
    /\ caller.ret.err.msg = "Value mismatch: expected (len), got (len)"
    /\ caller.ret.err.got = "sk-abc123"

(***************************************************************************)
(* C15: the self-test scenario.                                            *)
(***************************************************************************)
TestReturns == Testing /\ caller.pc = "cleanup" /\ caller'.pc = "done"

\* C15 as stated: when the read-back equals "test-value" the test passes,
\* and when the self-test returns, has("test-provider") is false.
C15_OriginalState == (TestDone /\ TestSetOk /\ caller.acc = Ok(Some(test_value))) => caller.ret.ok
C15_OriginalStep ==
    (TestReturns /\ caller'.ret.ok)
        => has_credential(Ctx(store', AllOk), test_provider).ret = Ok(Bool(FALSE))
C15_Original == [](C15_OriginalState) /\ [][C15_OriginalStep]_vars

\* C15 as amended: when the read-back equals "test-value" the test passes,
\* and when the self-test returns, has("test-provider") is false provided
\* the cleanup remove succeeded.
C15_AmendedStep ==
    (TestReturns /\ caller'.ret.ok /\ caller'.trace[Len(caller'.trace)].ok)
        => has_credential(Ctx(store', AllOk), test_provider).ret = Ok(Bool(FALSE))
C15_Scenario == [](C15_OriginalState) /\ [][C15_AmendedStep]_vars

\* the test passed, its cleanup succeeded and the test credential is gone
C15_Witness ==
    /\ TestDone /\ caller.ret.ok
    /\ caller.trace[Len(caller.trace)] = [fn |-> "remove_credential", ok |-> TRUE]
    /\ caller.acc = Ok(Some(test_value))
    /\ ~store[TestEntry].some

(***************************************************************************)
(* C17: no secret content in the output of the self-test.                  *)
(***************************************************************************)
\* two values that agree in length and in equality with the expected value
SameShape(v, w) == Len(v) = Len(w) /\ ((v = test_value) <=> (w = test_value))
Readable == Values \cup {test_value}

\* C17 as stated: what a step of the self-test logs, and what the command
\* returns, is the same for any two read-back values that agree in length
\* and in equality with the expected value.
C17_NoSecretInOutput ==
    (Testing /\ caller.at # "" /\ caller.seen.ok)
        => /\ (caller.at = "read" /\ caller.seen.val.some)
                 => \A w \in Readable :
                       SameShape(caller.seen.val.val, w)
                          => /\ LogRead(Ok(TestEntry), Ok(Some(w))) = caller.out
                             /\ TestVerdict(Ok(Some(w))) = TestVerdict(caller.seen)
           /\ caller.at = "direct"
                 => \A w \in Readable :
                       SameShape(caller.seen.val, w) => LogDirect(Ok(w)) = caller.out
           /\ caller.at = "set_verify"
                 => \A w \in Readable :
                       SameShape(caller.seen.val, w)
                          => LogVerify(test_value, Ok(w)) = caller.out

(***************************************************************************)
(* C18: frame.  A step of get, has, get_all or has_any leaves the store    *)
(* as it was; a step of set(P, .) or remove(P) leaves the entry of every   *)
(* provider other than P as it was; a step of the self-test leaves the     *)
(* entries of openrouter and gemini as they were (and a step of clear_all  *)
(* that of the test provider).                                             *)
(***************************************************************************)
Touched(c) ==
    CASE c.cmd \in {"set", "remove"} ->
            IF c.provider = "" THEN {} ELSE {EntryOf(c.provider)}
      [] c.cmd = "test" -> {TestEntry}
      [] c.cmd = "clear_all" -> {EntryOf(p) : p \in KnownProviders}
      [] OTHER -> {}

C18_Step ==
    caller' # caller
        => \A e \in Entries \ Touched(caller') : store'[e] = store[e]

C18_Frame == [][C18_Step]_vars

\* the self-test has written and removed its credential next to real secrets
C18_Witness ==
    /\ TestDone /\ caller.ret.ok
    /\ store[EntryOf("openrouter")] = Some("sk-abc123")
    /\ store[EntryOf("gemini")] = Some("gm-xyz789")
    /\ ~store[TestEntry].some

(***************************************************************************)
(* C19: the read-back of set only logs.  set(P, V) on a non-empty P        *)
(* returns Ok exactly when the entry was created and written; the write    *)
(* stores V; the read-back that follows leaves the store as it was, is     *)
(* the last step (no retry, no rollback) and ends in Ok(()) whether it     *)
(* failed, returned V or returned another value.                           *)
(***************************************************************************)
C19_State ==
    (caller.cmd = "set" /\ caller.pc = "done" /\ caller.provider # "")
        => /\ caller.ret.ok <=> caller.trace[1].ok
           /\ caller.ret.ok
                 => /\ caller.ret = Ok(Unit)
                    /\ Len(caller.trace) = 2 /\ caller.trace[2].fn = "verify"
           /\ ~caller.ret.ok
                 => /\ Len(caller.trace) = 1
                    /\ caller.ret = caller.seen
                    /\ caller.ret.err.kind = "Keyring"

C19_Step ==
    caller.cmd = "set"
        => /\ (caller.pc = "write" /\ caller'.pc = "verify")
                 => store' = [store EXCEPT ![EntryOf(caller.provider)] = Some(caller.value)]
           /\ (caller.pc = "verify" /\ caller' # caller)
                 => /\ store' = store
                    /\ caller'.pc = "done"
                    /\ caller'.ret = Ok(Unit)

C19_VerifyOnlyLogs == [](C19_State) /\ [][C19_Step]_vars

\* the read-back returned the value of another caller: set still returns Ok
C19_Witness ==
    /\ caller.cmd = "set" /\ caller.pc = "done" /\ caller.ret = Ok(Unit)
    /\ caller.value = "sk-abc123"
    /\ caller.seen = Ok("gm-xyz789")

(***************************************************************************)
(* Concurrent get, set and remove: one caller's invocation runs step by    *)
(* step while any number of other callers write and delete entries.        *)
(* `passed` collects the values passed to set per provider, `written` the  *)
(* effect of the last store write or delete per provider.                  *)
(***************************************************************************)
rw_invoke ==
    /\ ~Running(caller)
    /\ \E cmd \in {"get", "set", "remove"}, provider \in KnownProviders :
          \E value \in (IF cmd = "set" THEN Values ELSE {""}) :
             /\ caller' = Invoke(cmd, provider, value)
             /\ passed' = IF cmd = "set" THEN [passed EXCEPT ![provider] = @ \cup {value}]
                          ELSE passed
    /\ UNCHANGED <<store, written, last, peer, snaps>>

rw_step ==
    /\ Running(caller)
    /\ \E oracle \in Oracles(2) :
          \E r \in {Advance(caller, Ctx(store, oracle))} :
              /\ store' = r.ctx.store
              /\ caller' = r.caller
              /\ written' =
                    IF caller.cmd = "set" /\ caller.pc = "write" /\ r.caller.seen.ok
                    THEN [written EXCEPT ![caller.provider] = Some(caller.value)]
                    ELSE IF caller.cmd = "remove" /\ r.caller.ret.ok
                    THEN [written EXCEPT ![caller.provider] = None]
                    ELSE written
    /\ UNCHANGED <<last, peer, passed, snaps>>

rw_other_set ==
    /\ \E provider \in KnownProviders, value \in Values :
          /\ store' = set_credential(Ctx(store, AllOk), provider, value).ctx.store
          /\ passed' = [passed EXCEPT ![provider] = @ \cup {value}]
          /\ written' = [written EXCEPT ![provider] = Some(value)]
    /\ UNCHANGED <<last, peer, caller, snaps>>

rw_other_remove ==
    /\ \E provider \in KnownProviders :
          /\ store' = remove_credential(Ctx(store, AllOk), provider).ctx.store
          /\ written' = [written EXCEPT ![provider] = None]
    /\ UNCHANGED <<last, peer, caller, passed, snaps>>

NextRW == rw_invoke \/ rw_step \/ rw_other_set \/ rw_other_remove

SpecRW == Init /\ [][NextRW]_vars

(***************************************************************************)
(* C16: no vault-level locking is needed.  Under any interleaving with the *)
(* writes and deletes of other callers, a get(P) that returns a value      *)
(* returns None or a value passed to some set on P (by this or another     *)
(* caller), never one only passed to a set on another provider; and when   *)
(* no call is in progress, get(P) yields the effect of the last store      *)
(* write or delete applied to the entry of P.                              *)
(***************************************************************************)
C16_NoLockingNeeded ==
    /\ (caller.cmd = "get" /\ caller.pc = "done" /\ caller.ret.ok)
          => \/ caller.ret.val = None
             \/ /\ caller.ret.val.some
                /\ caller.ret.val.val \in passed[caller.provider]
    /\ ~Running(caller)
          => \A p \in KnownProviders :
                get_credential(Ctx(store, AllOk), p).ret = Ok(written[p])

\* get(openrouter) returned the one value set on openrouter while gemini
\* holds a value that was never set on openrouter
C16_Witness ==
    /\ caller.cmd = "get" /\ caller.pc = "done" /\ caller.provider = "openrouter"
    /\ caller.ret = Ok(Some("sk-abc123"))
    /\ passed["openrouter"] = {"sk-abc123"}
    /\ store[EntryOf("gemini")] = Some("gm-xyz789")
    /\ store[EntryOf("openrouter")] = None

(***************************************************************************)
(* Concurrent get_all: `snaps` is the sequence of the pairs of entries of  *)
(* the known providers at every instant since the invocation started.      *)
(***************************************************************************)
Pair(s) == ApiKeys(s[EntryOf("openrouter")], s[EntryOf("gemini")])

snap_invoke ==
    /\ caller.pc = "idle"
    /\ caller' = Invoke("get_all", "", "")
    /\ snaps' = << Pair(store) >>
    /\ UNCHANGED <<store, written, last, peer, passed>>

snap_step ==
    /\ Running(caller)
    /\ \E oracle \in Oracles(2) :
          LET r == Advance(caller, Ctx(store, oracle))
          IN  /\ store' = r.ctx.store
              /\ caller' = r.caller
    /\ UNCHANGED <<written, last, peer, passed, snaps>>

\* the caller takes the result; the next invocation starts a new history
snap_return ==
    /\ caller.pc = "done"
    /\ caller' = Idle
    /\ snaps' = <<>>
    /\ UNCHANGED <<store, written, last, peer, passed>>

Interfere(s) ==
    /\ caller.pc # "done"
    /\ Running(caller) => Len(snaps) <= MaxInterference
    /\ store' = s
    /\ snaps' = IF Running(caller) THEN Append(snaps, Pair(s)) ELSE snaps
    /\ UNCHANGED <<written, last, peer, caller, passed>>

snap_other_set ==
    \E provider \in KnownProviders, value \in Values :
        Interfere(set_credential(Ctx(store, AllOk), provider, value).ctx.store)

snap_other_remove ==
    \E provider \in KnownProviders :
        Interfere(remove_credential(Ctx(store, AllOk), provider).ctx.store)

NextSnap == snap_invoke \/ snap_step \/ snap_return \/ snap_other_set \/ snap_other_remove

SpecSnap == Init /\ [][NextSnap]_vars

(***************************************************************************)
(* C20: get_all under concurrency.                                         *)
(***************************************************************************)
GetAllDone == caller.cmd = "get_all" /\ caller.pc = "done" /\ caller.ret.ok

\* C20 as stated: the aggregate that get_all returns equals the pair of
\* values the store held together at some single instant between the start
\* of the call and its return.
C20_Original ==
    GetAllDone => \E i \in 1..Len(snaps) : snaps[i] = caller.ret.val

\* C20 as amended: each field of the aggregate equals the value the entry
\* of its provider held at some instant between the start of the call and
\* its return, that of openrouter no later than that of gemini; the two
\* instants coincide when no other caller writes during the call.
C20_PerFieldSnapshot ==
    GetAllDone
        => /\ \E i \in 1..Len(snaps) :
                 /\ snaps[i].openrouter = caller.ret.val.openrouter
                 /\ \E j \in i..Len(snaps) : snaps[j].gemini = caller.ret.val.gemini
           /\ Len(snaps) = 1 => snaps[1] = caller.ret.val

\* a torn aggregate: the store never held the returned pair during the call
C20_Witness ==
    /\ GetAllDone
    /\ caller.ret.val = ApiKeys(None, Some("gm-xyz789"))
    /\ \A i \in 1..Len(snaps) : snaps[i] # caller.ret.val

(***************************************************************************)
(* Two concurrent self-tests: `caller` and `peer` each run                 *)
(* test_keychain_access one store access per step against a store that     *)
(* is atomic per key and on which every platform call succeeds.  Both are  *)
(* direct calls of the function: the application does not register it.     *)
(***************************************************************************)
caller_test_invoke ==
    /\ ~Running(caller)
    /\ caller' = Invoke("test", "", "")
    /\ UNCHANGED <<store, written, last, peer, passed, snaps>>

caller_test_step ==
    /\ Running(caller)
    /\ \E r \in {Advance(caller, Ctx(store, AllOk))} :
          /\ store' = r.ctx.store
          /\ caller' = r.caller
    /\ UNCHANGED <<written, last, peer, passed, snaps>>

peer_test_invoke ==
    /\ ~Running(peer)
    /\ peer' = Invoke("test", "", "")
    /\ UNCHANGED <<store, written, last, caller, passed, snaps>>

peer_test_step ==
    /\ Running(peer)
    /\ \E r \in {Advance(peer, Ctx(store, AllOk))} :
          /\ store' = r.ctx.store
          /\ peer' = r.caller
    /\ UNCHANGED <<written, last, caller, passed, snaps>>

NextT == caller_test_invoke \/ caller_test_step \/ peer_test_invoke \/ peer_test_step

SpecT == Init /\ [][NextT]_vars

\* C21 as stated: on a store where every platform call succeeds, two
\* self-test runs that have both returned have both reported pass.
C21_ConcurrentTestsPass ==
    (caller.cmd = "test" /\ caller.pc = "done" /\ peer.cmd = "test" /\ peer.pc = "done")
        => (caller.ret.ok /\ peer.ret.ok)
====
